---- MODULE Spec2Model ----
(***************************************************************************)
(* Model of src/client.py: a UDP rendezvous client.  main() binds a        *)
(* socket, main_loop() learns the peer address from the introducer         *)
(* (first_peer_fetch), pings the peer for 100 rounds, rebinds after 10      *)
(* counted misses, and main()'s finally clause sends EXIT.                  *)
(*                                                                          *)
(* Text is modelled as a sequence of one-character strings, an address as   *)
(* <<host, port>> with host such a sequence and port an integer.            *)
(***************************************************************************)
EXTENDS Integers, Sequences, FiniteSets, TLC

VARIABLES
    pc,           \* where the run is: "start", "fetch_send", "fetch_recv",
                  \* "loop", "recv", "leave", "done"
    caller,       \* the call of first_peer_fetch in progress: "init", "recover"
    main_s,       \* the socket main() holds, [id, port]
    s,            \* the socket main_loop() holds, [id, port]
    peer,         \* main_loop's peer
    error_clock,  \* main_loop's error_clock
    ok_clock,     \* main_loop's ok_clock
    i,            \* main_loop's round index
    stats,        \* Stats: [miss, got, other, last]
    inbox,        \* what select/recvfrom hands over: NoDatagram or [msg, addr]
    fault,        \* the exception propagating out of main_loop, or None
    fi,           \* first_peer_fetch's loop index
    joins,        \* history: JOINs sent by the call in progress
    waits,        \* history: waits started by the call in progress
    lastSent,     \* history: the last datagram sent, [kind, to, sock]
    exits,        \* history: EXIT datagrams sent
    outcome,      \* history: what the last completed round received: "miss",
                  \* "hit", "update", "other"; "none" after a first_peer_fetch
    missRun,      \* history: rounds without a datagram since the last round
                  \* with one, or since the last return of first_peer_fetch
    announced,    \* history: the peer address in the last message of the
                  \* introducer that was taken as its answer or as an update
    pings,        \* history: pings sent
    arg,          \* the input of a function applied on its own, else None
    res           \* the result of that function, else None

vars == <<pc, caller, main_s, s, peer, error_clock, ok_clock, i, stats,
          inbox, fault, fi, joins, waits, lastSent, exits, outcome, missRun,
          announced, pings, arg, res>>

hist == <<outcome, missRun, announced>>

io == <<arg, res>>

\* Python's None, at each type it is used at
None == "None"
NoAddr == <<(<<>>), 0>>
NoSocket == [id |-> 0 - 1, port |-> 0]
NoDatagram == [msg |-> <<>>, addr |-> NoAddr]
NothingSent == [kind |-> "none", to |-> NoAddr, sock |-> 0 - 1]

----------------------------------------------------------------------------
(* Program constants *)

Rounds == 100
Threshold == 10
DefaultPort == 9990
ErrnoTaken == 48
RecvSize == 100

(* Bounds of the environment *)

\* datagrams the network delivers during the keepalive rounds of one run
MaxDatagrams == 2
\* JOIN attempts the model follows inside one call of first_peer_fetch
MaxAttempts == 2
\* bind() calls of one run that fail
MaxBindFailures == 1
\* ports above the default one that another process may hold
PortSpan == 3
\* characters of a text handed to the codec on its own
MaxLen == 6

----------------------------------------------------------------------------
(* Address codec *)

Digit == {"0", "1", "2", "3", "4", "5", "6", "7", "8", "9"}

DigitVal(c) ==
    CASE c = "0" -> 0 [] c = "1" -> 1 [] c = "2" -> 2 [] c = "3" -> 3
      [] c = "4" -> 4 [] c = "5" -> 5 [] c = "6" -> 6 [] c = "7" -> 7
      [] c = "8" -> 8 [] c = "9" -> 9

DigitChar(d) ==
    CASE d = 0 -> "0" [] d = 1 -> "1" [] d = 2 -> "2" [] d = 3 -> "3"
      [] d = 4 -> "4" [] d = 5 -> "5" [] d = 6 -> "6" [] d = 7 -> "7"
      [] d = 8 -> "8" [] d = 9 -> "9"

\* str.split(sep): the fields between the separators, at least one field
RECURSIVE Split(_, _)
Split(str, sep) ==
    IF \A k \in 1..Len(str) : str[k] # sep
    THEN <<str>>
    ELSE LET k == CHOOSE j \in 1..Len(str) :
                      str[j] = sep /\ \A m \in 1..(j - 1) : str[m] # sep
         IN  <<SubSeq(str, 1, k - 1)>> \o Split(SubSeq(str, k + 1, Len(str)), sep)

\* str.strip() as int() applies it
RECURSIVE Strip(_)
Strip(str) ==
    IF str = <<>> THEN str
    ELSE IF Head(str) = " " THEN Strip(Tail(str))
    ELSE IF str[Len(str)] = " " THEN Strip(SubSeq(str, 1, Len(str) - 1))
    ELSE str

\* the literal after the sign: digits, single underscores only between digits
IsDigits(str) ==
    /\ str # <<>>
    /\ \A k \in 1..Len(str) : str[k] \in Digit \cup {"_"}
    /\ str[1] # "_"
    /\ str[Len(str)] # "_"
    /\ \A k \in 1..(Len(str) - 1) : ~(str[k] = "_" /\ str[k + 1] = "_")

RECURSIVE DigitsValue(_, _)
DigitsValue(str, acc) ==
    IF str = <<>> THEN acc
    ELSE IF Head(str) = "_" THEN DigitsValue(Tail(str), acc)
    ELSE DigitsValue(Tail(str), 10 * acc + DigitVal(Head(str)))

\* int(port_string): [ok, val]; ok = FALSE is ValueError
ParseInt(str) ==
    LET t    == Strip(str)
        sign == IF t # <<>> /\ Head(t) \in {"+", "-"} THEN Head(t) ELSE ""
        body == IF sign = "" THEN t ELSE Tail(t)
    IN  IF IsDigits(body)
        THEN [ok |-> TRUE,
              val |-> IF sign = "-" THEN 0 - DigitsValue(body, 0)
                                    ELSE DigitsValue(body, 0)]
        ELSE [ok |-> FALSE, val |-> 0]

\* parse_addr: [ok, addr]; ok = FALSE is ValueError
parse_addr(addr_string) ==
    LET fields == Split(addr_string, ":")
    IN  IF Len(fields) # 2
        THEN [ok |-> FALSE, addr |-> NoAddr]
        ELSE LET port == ParseInt(fields[2])
             IN  IF port.ok
                 THEN [ok |-> TRUE, addr |-> <<fields[1], port.val>>]
                 ELSE [ok |-> FALSE, addr |-> NoAddr]

\* bytes that are no UTF-8 text are the one-element marker "\\xff"
Decodes(msg) == \A k \in 1..Len(msg) : msg[k] # "\\xff"

\* variant: the first two fields are used, further ones are dropped
parse_server_msg_first_two(msg) ==
    IF ~Decodes(msg)
    THEN [ok |-> FALSE, our |-> NoAddr, peer |-> NoAddr]
    ELSE LET fields == Split(msg, ";")
         IN  IF Len(fields) < 2
             THEN [ok |-> FALSE, our |-> NoAddr, peer |-> NoAddr]
             ELSE LET our == parse_addr(fields[1])
                      p   == parse_addr(fields[2])
                  IN  IF our.ok /\ p.ok
                      THEN [ok |-> TRUE, our |-> our.addr, peer |-> p.addr]
                      ELSE [ok |-> FALSE, our |-> NoAddr, peer |-> NoAddr]

\* parse_server_msg: [ok, our, peer]; ok = FALSE is ValueError
parse_server_msg(msg) ==
    IF ~Decodes(msg)
    THEN [ok |-> FALSE, our |-> NoAddr, peer |-> NoAddr]
    ELSE LET fields == Split(msg, ";")
         IN  IF Len(fields) # 2
             THEN [ok |-> FALSE, our |-> NoAddr, peer |-> NoAddr]
             ELSE LET our == parse_addr(fields[1])
                      p   == parse_addr(fields[2])
                  IN  IF our.ok /\ p.ok
                      THEN [ok |-> TRUE, our |-> our.addr, peer |-> p.addr]
                      ELSE [ok |-> FALSE, our |-> NoAddr, peer |-> NoAddr]

----------------------------------------------------------------------------
(* The network: the introducer, two peer addresses on one host, and what
   they send *)

RECURSIVE ToDigits(_)
ToDigits(n) ==
    IF n < 10 THEN <<DigitChar(n)>>
    ELSE ToDigits(n \div 10) \o <<DigitChar(n % 10)>>

FormatAddr(addr) == addr[1] \o <<":">> \o ToDigits(addr[2])

ServerMsg(our, p) == FormatAddr(our) \o <<";">> \o FormatAddr(p)

Remote == <<(<<"r">>), 1>>
PeerA  == <<(<<"a">>), 2>>
PeerB  == <<(<<"a">>), 3>>
Our    == <<(<<"o">>), 4>>

Announced == {PeerA, PeerB, Remote}

WellFormed == {ServerMsg(Our, p) : p \in Announced}

Malformed == { <<"a", ":", "2">>,
               <<"o", ":", "4", ";", "a", ":", "x">> }

Payload == <<"p">>

FromRemote == {[msg |-> m, addr |-> Remote] : m \in WellFormed \cup Malformed}

FromPeers == {[msg |-> Payload, addr |-> a] : a \in {PeerA, PeerB}}

\* the peer address a well-formed message of the introducer carries
AnnouncedBy(msg) ==
    IF \E p \in Announced : msg = ServerMsg(Our, p)
    THEN CHOOSE p \in Announced : msg = ServerMsg(Our, p)
    ELSE NoAddr

\* what a round received, as the protocol names it
Received(box, believed) ==
    IF box = NoDatagram THEN "miss"
    ELSE IF box.addr = believed THEN "hit"
    ELSE IF box.addr = Remote THEN "update"
    ELSE "other"

Errnos == {ErrnoTaken, 98}

\* the errnos of the bind() calls that fail before one succeeds
BindErrs(budget) ==
    {<<>>} \cup (IF budget > 0 THEN {<<e>> : e \in Errnos} ELSE {})
           \cup (IF budget > 1 THEN {<<ErrnoTaken, e>> : e \in Errnos} ELSE {})

----------------------------------------------------------------------------
(* Socket manager *)

\* recvfrom(100)
Recv(msg) == IF Len(msg) > RecvSize THEN SubSeq(msg, 1, RecvSize) ELSE msg

\* prepare_socket's bind loop: [ok, port]; ok = FALSE is the OSError raised
RECURSIVE prepare_socket(_, _)
prepare_socket(port, errs) ==
    IF errs = <<>> THEN [ok |-> TRUE, port |-> port]
    ELSE IF Head(errs) = ErrnoTaken THEN prepare_socket(port + 1, Tail(errs))
    ELSE [ok |-> FALSE, port |-> port]

\* a host on which prepare_socket runs: the port asked for, the ports other
\* processes hold, the errno the platform gives for a port that is held
\* (EADDRINUSE: 48 on macOS and the BSDs, 98 on Linux), and the ports on which
\* bind fails for another reason (EACCES, 13)
BindArgs ==
    {[port |-> p, taken |-> tk, inuse |-> e, denied |-> dn] :
        p \in DefaultPort..(DefaultPort + PortSpan - 1),
        tk \in SUBSET (DefaultPort..(DefaultPort + PortSpan)),
        e \in Errnos,
        dn \in {{}} \cup {{q} : q \in DefaultPort..(DefaultPort + PortSpan)}}

\* the errno of s.bind((host, port)) on that host, 0 when it succeeds
PortErrno(env, port) ==
    IF port \in env.taken THEN env.inuse
    ELSE IF port \in env.denied THEN 13
    ELSE 0

\* the errnos of bind on port, port + 1, ... up to the first that succeeds
RECURSIVE ErrsAt(_, _)
ErrsAt(env, port) ==
    IF PortErrno(env, port) = 0 THEN <<>>
    ELSE <<PortErrno(env, port)>> \o ErrsAt(env, port + 1)

BindFailures == IF s = NoSocket THEN 0 ELSE s.port - DefaultPort - s.id

----------------------------------------------------------------------------
(* Decisions of first_peer_fetch, main_loop and main *)

\* variant: any sender is taken for the introducer
AcceptsAnySender(sender_addr, remote) == TRUE

\* first_peer_fetch: "if sender_addr == remote"
Accepts(sender_addr, remote) == sender_addr = remote

\* variant: the loop gives up after its second wait
LoopEndsLimited(k, accepted) == accepted \/ k >= 1

\* first_peer_fetch: the for loop ends only by the break
LoopEnds(k, accepted) == accepted

\* variant: a message that does not parse is passed over
RaisesNever(parsed) == FALSE

\* parse_server_msg's ValueError is caught nowhere in first_peer_fetch and
\* main_loop
Raises(parsed) == ~parsed.ok

\* variant: the loop's counters are set up after every first_peer_fetch
FirstFetchAlways(c) == TRUE

\* main_loop: stats, error_clock and ok_clock are set up after the first
\* call of first_peer_fetch, not after the one of a recovery
FirstFetch(c) == c = "init"

\* variant: the test is > instead of ==
NeedsRecoveryLate(ec) == ec > Threshold

\* main_loop: "if error_clock == 10"
NeedsRecovery(ec) == ec = Threshold

\* variant: senders are compared by host alone
ClassificationByHost(box, p, remote) ==
    IF box = NoDatagram THEN "miss"
    ELSE IF box.addr[1] = p[1] THEN "hit"
    ELSE IF box.addr[1] = remote[1] THEN "update"
    ELSE "other"

\* variant: the sender is compared with remote before it is compared with peer
ClassificationRemoteFirst(box, p, remote) ==
    IF box = NoDatagram THEN "miss"
    ELSE IF box.addr = remote THEN "update"
    ELSE IF box.addr = p THEN "hit"
    ELSE "other"

\* main_loop: the if/elif/else over the sender, "miss" when select times out
Classification(box, p, remote) ==
    IF box = NoDatagram THEN "miss"
    ELSE IF box.addr = p THEN "hit"
    ELSE IF box.addr = remote THEN "update"
    ELSE "other"

\* variant: every datagram resets error_clock
ErrorClockResetByAny(kind, ec) ==
    CASE kind = "miss" -> ec + 1
      [] OTHER         -> 0

\* main_loop: "error_clock = 0" on a hit, "error_clock += 1" on a timeout
ErrorClockAfter(kind, ec) ==
    CASE kind = "hit"  -> 0
      [] kind = "miss" -> ec + 1
      [] OTHER         -> ec

OkClockAfter(kind, ok) == IF kind = "hit" THEN ok + 1 ELSE ok

\* variant: the first address of the message is kept instead of the second
PeerAfterOur(kind, p, parsed) == IF kind = "update" THEN parsed.our ELSE p

\* main_loop: "_, peer = parse_server_msg(msg)"
PeerAfter(kind, p, parsed) == IF kind = "update" THEN parsed.peer ELSE p

\* variant: the hit branch calls stats.miss() and the timeout stats.got()
StatsAfterSwapped(kind, st) ==
    CASE kind = "hit"  -> [st EXCEPT !.miss = @ + 1]
      [] kind = "miss" -> [st EXCEPT !.got = @ + 1]
      [] OTHER         -> [st EXCEPT !.other = @ + 1]

\* variant: the update branch leaves out stats.other()
StatsAfterNoUpdate(kind, st) ==
    CASE kind = "hit"    -> [st EXCEPT !.got = @ + 1]
      [] kind = "miss"   -> [st EXCEPT !.miss = @ + 1]
      [] kind = "update" -> st
      [] OTHER           -> [st EXCEPT !.other = @ + 1]

\* main_loop: stats.got(), stats.other(), stats.miss()
StatsAfter(kind, st) ==
    CASE kind = "hit"  -> [st EXCEPT !.got = @ + 1]
      [] kind = "miss" -> [st EXCEPT !.miss = @ + 1]
      [] OTHER         -> [st EXCEPT !.other = @ + 1]

\* Stats.__init__; of last, the counters of the snapshot (None: all -1)
NewStats ==
    [miss |-> 0, got |-> 0, other |-> 0,
     last |-> [miss |-> 0 - 1, got |-> 0 - 1, other |-> 0 - 1]]

\* Stats.print_step: what it prints is left out, the snapshot it keeps is not
print_step(st) ==
    [st EXCEPT !.last = [miss |-> st.miss, got |-> st.got, other |-> st.other]]

\* main_loop: "if (i % 10) == 0 and i != 0: stats.print_step()"
EndOfRound(k, st) == IF k % 10 = 0 /\ k # 0 THEN print_step(st) ELSE st

\* variant: disconnect follows main_loop without a finally
AfterMainLoopNoFinally(f) == IF f = None THEN "leave" ELSE "done"

\* main: try/finally, disconnect runs however main_loop ends
AfterMainLoop(f) == "leave"

\* main: disconnect is given main's own s
ExitSocket == main_s

----------------------------------------------------------------------------
(* The run *)

Idle ==
    /\ caller = None
    /\ main_s = NoSocket
    /\ s = NoSocket
    /\ peer = NoAddr
    /\ error_clock = 0
    /\ ok_clock = 0
    /\ i = 0
    /\ stats = NewStats
    /\ inbox = NoDatagram
    /\ fault = None
    /\ fi = 0
    /\ joins = 0
    /\ waits = 0
    /\ lastSent = NothingSent
    /\ exits = 0
    /\ outcome = "none"
    /\ missRun = 0
    /\ announced = NoAddr
    /\ pings = 0

Init ==
    /\ pc = "start"
    /\ Idle
    /\ arg = None
    /\ res = None

\* main, up to the try: the configuration is read, the socket is bound
Start ==
    /\ pc = "start"
    /\ \E config_ok \in BOOLEAN, errs \in BindErrs(MaxBindFailures) :
         LET bound == prepare_socket(DefaultPort, errs)
         IN  IF ~config_ok
             THEN /\ pc' = "done"
                  /\ fault' = "SystemExit"
                  /\ UNCHANGED <<main_s, s, caller>>
             ELSE IF ~bound.ok
             THEN /\ pc' = "done"
                  /\ fault' = "OSError"
                  /\ UNCHANGED <<main_s, s, caller>>
             ELSE /\ pc' = "fetch_send"
                  /\ caller' = "init"
                  /\ main_s' = [id |-> 0, port |-> bound.port]
                  /\ s' = [id |-> 0, port |-> bound.port]
                  /\ UNCHANGED fault
    /\ UNCHANGED <<peer, error_clock, ok_clock, i, stats, inbox, fi, joins,
                   waits, lastSent, exits, hist>>
    /\ UNCHANGED <<pings, io>>

\* first_peer_fetch: make_peer_req, then select
FetchSend ==
    /\ pc = "fetch_send"
    /\ fi < MaxAttempts
    /\ lastSent' = [kind |-> "JOIN", to |-> Remote, sock |-> s.id]
    /\ joins' = joins + 1
    /\ waits' = waits + 1
    /\ inbox' \in {NoDatagram} \cup FromPeers \cup FromRemote
    /\ pc' = "fetch_recv"
    /\ UNCHANGED <<caller, main_s, s, peer, error_clock, ok_clock, i, stats,
                   fault, fi, exits, hist>>
    /\ UNCHANGED <<pings, io>>

\* first_peer_fetch: recvfrom, the sender test, and after the loop the parse
\* and the return into main_loop
FetchRecv ==
    /\ pc = "fetch_recv"
    /\ LET accepted   == inbox # NoDatagram /\ Accepts(inbox.addr, Remote)
           \* server_msg: [set, msg], set = FALSE is None
           server_msg == [set |-> accepted,
                          msg |-> IF accepted THEN Recv(inbox.msg) ELSE <<>>]
           parsed     == parse_server_msg(server_msg.msg)
       IN  IF ~LoopEnds(fi, accepted)
           THEN /\ fi' = fi + 1
                /\ pc' = "fetch_send"
                /\ UNCHANGED <<caller, peer, error_clock, ok_clock, i, stats,
                               fault, joins, waits, hist>>
           ELSE IF ~server_msg.set
           THEN /\ fault' = "RuntimeError"
                /\ pc' = AfterMainLoop("RuntimeError")
                /\ UNCHANGED <<caller, peer, error_clock, ok_clock, i, stats,
                               fi, joins, waits, hist>>
           ELSE IF Raises(parsed)
           THEN /\ fault' = "ValueError"
                /\ pc' = AfterMainLoop("ValueError")
                /\ UNCHANGED <<caller, peer, error_clock, ok_clock, i, stats,
                               fi, joins, waits, hist>>
           ELSE /\ peer' = parsed.peer
                /\ pc' = "loop"
                /\ caller' = None
                /\ fi' = 0
                /\ joins' = 0
                /\ waits' = 0
                /\ error_clock' = 0
                /\ IF FirstFetch(caller)
                   THEN /\ stats' = NewStats
                        /\ ok_clock' = 0
                        /\ i' = 0
                   ELSE UNCHANGED <<stats, ok_clock, i>>
                /\ outcome' = "none"
                /\ missRun' = 0
                /\ announced' = AnnouncedBy(inbox.msg)
                /\ UNCHANGED fault
    /\ inbox' = NoDatagram
    /\ UNCHANGED <<main_s, s, lastSent, exits>>
    /\ UNCHANGED <<pings, io>>

\* main_loop: a round whose error_clock is 10 rebinds and calls
\* first_peer_fetch again
Recover ==
    /\ pc = "loop"
    /\ i < Rounds
    /\ NeedsRecovery(error_clock)
    /\ \E errs \in BindErrs(MaxBindFailures - BindFailures) :
         LET bound == prepare_socket(s.port + 1, errs)
         IN  IF bound.ok
             THEN /\ s' = [id |-> s.id + 1, port |-> bound.port]
                  /\ pc' = "fetch_send"
                  /\ caller' = "recover"
                  /\ UNCHANGED fault
             ELSE /\ fault' = "OSError"
                  /\ pc' = AfterMainLoop("OSError")
                  /\ UNCHANGED <<s, caller>>
    /\ UNCHANGED <<main_s, peer, error_clock, ok_clock, i, stats, inbox, fi,
                   joins, waits, lastSent, exits, hist>>
    /\ UNCHANGED <<pings, io>>

\* main_loop: the ping and the select of a round
PingWith(deliveries) ==
    /\ pc = "loop"
    /\ i < Rounds
    /\ ~NeedsRecovery(error_clock)
    /\ lastSent' = [kind |-> "ping", to |-> peer, sock |-> s.id]
    /\ pings' = pings + 1
    /\ inbox' \in deliveries
    /\ pc' = "recv"
    /\ UNCHANGED <<caller, main_s, s, peer, error_clock, ok_clock, i, stats,
                   fault, fi, joins, waits, exits, hist, io>>

\* a round in a network that delivers at most MaxDatagrams datagrams
Ping ==
    PingWith({NoDatagram} \cup
             (IF stats.got + stats.other < MaxDatagrams
              THEN FromPeers \cup FromRemote ELSE {}))

\* a round in which the peer answers the ping
PingAnswered == PingWith({[msg |-> Payload, addr |-> peer]})

\* main_loop: recvfrom and the classification of a round
Classify ==
    /\ pc = "recv"
    /\ LET kind   == Classification(inbox, peer, Remote)
           parsed == IF kind = "update"
                     THEN parse_server_msg(Recv(inbox.msg))
                     ELSE [ok |-> TRUE, our |-> NoAddr, peer |-> NoAddr]
       IN  IF Raises(parsed)
           THEN /\ fault' = "ValueError"
                /\ pc' = AfterMainLoop("ValueError")
                /\ UNCHANGED <<peer, error_clock, ok_clock, i, stats, hist>>
           ELSE /\ peer' = PeerAfter(kind, peer, parsed)
                /\ error_clock' = ErrorClockAfter(kind, error_clock)
                /\ ok_clock' = OkClockAfter(kind, ok_clock)
                /\ stats' = EndOfRound(i, StatsAfter(kind, stats))
                /\ i' = i + 1
                /\ pc' = "loop"
                /\ outcome' = Received(inbox, peer)
                /\ missRun' = IF inbox = NoDatagram THEN missRun + 1 ELSE 0
                /\ announced' = IF Received(inbox, peer) = "update"
                                THEN AnnouncedBy(inbox.msg) ELSE announced
                /\ UNCHANGED fault
    /\ inbox' = NoDatagram
    /\ UNCHANGED <<caller, main_s, s, fi, joins, waits, lastSent, exits>>
    /\ UNCHANGED <<pings, io>>

\* main_loop: the rounds are over, print_results and return
Finish ==
    /\ pc = "loop"
    /\ i = Rounds
    /\ pc' = AfterMainLoop(None)
    /\ UNCHANGED <<caller, main_s, s, peer, error_clock, ok_clock, i, stats,
                   inbox, fault, fi, joins, waits, lastSent, exits, hist>>
    /\ UNCHANGED <<pings, io>>

\* main: the finally clause, disconnect
Leave ==
    /\ pc = "leave"
    /\ lastSent' = [kind |-> "EXIT", to |-> Remote, sock |-> ExitSocket.id]
    /\ exits' = exits + 1
    /\ pc' = "done"
    /\ UNCHANGED <<caller, main_s, s, peer, error_clock, ok_clock, i, stats,
                   inbox, fault, fi, joins, waits, hist>>
    /\ UNCHANGED <<pings, io>>

Next ==
    \/ Start
    \/ FetchSend
    \/ FetchRecv
    \/ Recover
    \/ Ping
    \/ Classify
    \/ Finish
    \/ Leave

Spec == Init /\ [][Next]_vars

\* the texts the codec is applied to on its own
Alphabet == {"a", "1", ":", ";", "-"}

Texts == UNION {[1..n -> Alphabet] : n \in 0..MaxLen}

\* parse_addr and parse_server_msg on their own, on every text of Texts
InitCodec ==
    /\ pc = "text"
    /\ Idle
    /\ arg \in Texts
    /\ res = None

ParseAddrCall ==
    /\ pc = "text"
    /\ res' = parse_addr(arg)
    /\ pc' = "addr"
    /\ UNCHANGED <<caller, main_s, s, peer, error_clock, ok_clock, i, stats,
                   inbox, fault, fi, joins, waits, lastSent, exits, hist,
                   pings, arg>>

ParseMsgCall ==
    /\ pc = "text"
    /\ res' = parse_server_msg(arg)
    /\ pc' = "msg"
    /\ UNCHANGED <<caller, main_s, s, peer, error_clock, ok_clock, i, stats,
                   inbox, fault, fi, joins, waits, lastSent, exits, hist,
                   pings, arg>>

NextCodec ==
    \/ ParseAddrCall
    \/ ParseMsgCall

SpecCodec == InitCodec /\ [][NextCodec]_vars

\* prepare_socket on its own, on every host of BindArgs
InitBind ==
    /\ pc = "bind"
    /\ Idle
    /\ arg \in BindArgs
    /\ res = None

BindCall ==
    /\ pc = "bind"
    /\ res' = prepare_socket(arg.port, ErrsAt(arg, arg.port))
    /\ pc' = "bound"
    /\ UNCHANGED <<caller, main_s, s, peer, error_clock, ok_clock, i, stats,
                   inbox, fault, fi, joins, waits, lastSent, exits, hist,
                   pings, arg>>

SpecBind == InitBind /\ [][BindCall]_vars

\* the run in a network where the peer answers every ping and nothing else
\* arrives during the rounds
NextAllHits ==
    \/ Start
    \/ FetchSend
    \/ FetchRecv
    \/ PingAnswered
    \/ Classify
    \/ Finish
    \/ Leave

SpecAllHits == Init /\ [][NextAllHits]_vars

----------------------------------------------------------------------------
(* Properties *)

Bound == main_s # NoSocket

\* the datagram in inbox is from the introducer and is not well-formed
MalformedFromRemote ==
    inbox # NoDatagram /\ inbox.addr = Remote /\ inbox.msg \in Malformed

\* C1: once the initial bind has succeeded, every way out of main_loop (the
\* rounds completed, or an exception out of first_peer_fetch or the loop)
\* goes through disconnect: the run ends with exactly one EXIT sent, to
\* remote, and that EXIT is the last datagram sent.
C1_LeaveExactlyOnce ==
    /\ exits \in {0, 1}
    /\ (exits = 1) <=> (pc = "done" /\ Bound)
    /\ exits = 1 => lastSent.kind = "EXIT" /\ lastSent.to = Remote
    /\ (fault # None /\ Bound) => pc \in {"leave", "done"}
    /\ pc = "leave" => Bound /\ exits = 0

C1_Witness ==
    /\ pc = "done"
    /\ exits = 1
    /\ fault = "ValueError"
    /\ s.id > 0
    /\ lastSent.kind = "EXIT"

C3_ErrorClockSteps ==
    /\ [][(pc = "recv" /\ pc' = "loop")
            => error_clock' =
                 (CASE Received(inbox, peer) = "hit"  -> 0
                    [] Received(inbox, peer) = "miss" -> error_clock + 1
                    [] OTHER                          -> error_clock)]_vars
    /\ [][(pc = "fetch_recv" /\ caller = "recover" /\ pc' = "loop")
            => error_clock' = 0]_vars
    /\ [][error_clock' # error_clock
            => \/ /\ pc = "recv"
                  /\ pc' = "loop"
                  /\ Received(inbox, peer) \in {"hit", "miss"}
               \/ /\ pc = "fetch_recv"
                  /\ pc' = "loop"
                  /\ caller = "recover"]_vars

C3_Witness ==
    /\ pc = "loop"
    /\ outcome = "update"
    /\ error_clock > 0
    /\ missRun = 0

\* C4: a ping goes to the peer address of the last message of the introducer
\* that was taken as the answer of first_peer_fetch or as an update; peer is
\* that address throughout the rounds.
C4_PingGoesToAnnounced ==
    /\ pc \in {"loop", "recv"} => peer = announced
    /\ pc = "recv" => lastSent.kind = "ping" /\ lastSent.to = announced

C4_Witness ==
    /\ pc = "recv"
    /\ outcome = "update"
    /\ lastSent.to = Remote
    /\ error_clock = Threshold - 1

\* C5: a round that receives a datagram from an address that is neither peer
\* nor remote counts it as other and changes neither error_clock, ok_clock,
\* the got and miss counters nor peer.
C5_StrangerIsOther ==
    [][(pc = "recv" /\ inbox # NoDatagram
          /\ inbox.addr # peer /\ inbox.addr # Remote)
         => /\ stats'.other = stats.other + 1
            /\ stats'.got = stats.got
            /\ stats'.miss = stats.miss
            /\ error_clock' = error_clock
            /\ ok_clock' = ok_clock
            /\ peer' = peer
            /\ fault' = None]_vars

C5_Witness ==
    /\ pc = "loop"
    /\ outcome = "other"
    /\ peer \in {PeerA, PeerB}
    /\ error_clock > 0
    /\ stats.got = 0
    /\ stats.other = 1

\* C6: first_peer_fetch returns only on a datagram from remote, and returns
\* the second address of that datagram; a wait that ends without a datagram
\* or with one from another sender goes on to the next JOIN and leaves peer
\* alone.
C6_DiscoverAcceptsOnlyRemote ==
    /\ [][(pc = "fetch_recv" /\ pc' = "loop")
            => /\ inbox # NoDatagram
               /\ inbox.addr = Remote
               /\ \E p \in Announced : /\ inbox.msg = ServerMsg(Our, p)
                                       /\ peer' = p]_vars
    /\ [][(pc = "fetch_recv" /\ (inbox = NoDatagram \/ inbox.addr # Remote))
            => (pc' = "fetch_send" /\ peer' = peer /\ fault' = fault)]_vars

C6_Witness ==
    /\ pc = "loop"
    /\ s.id = 1
    /\ outcome = "none"
    /\ peer = PeerB
    /\ lastSent.kind = "JOIN"

C8_OneSocket ==
    /\ main_s = s
    /\ lastSent # NothingSent => lastSent.sock = s.id

\* C9: a run whose binds succeed and whose first_peer_fetch calls return
\* ends only after all the rounds, without an exception.
C9_RunCompletes ==
    (pc = "done" /\ Bound /\ fault # "OSError" /\ caller = None)
        => (fault = None /\ i = Rounds)

\* C10 as stated: every datagram from remote that is not a well-formed
\* message ends the round it arrives in with the parse error.
C10_MalformedAlwaysRaises ==
    [][(pc = "recv" /\ MalformedFromRemote) => fault' = "ValueError"]_vars

\* C10 amended: a datagram from remote that is not a well-formed message,
\* received by first_peer_fetch, or by a round while peer is not remote,
\* raises: peer, the round index and the counters stay as they are, no
\* round and no JOIN follows, and disconnect still sends EXIT.
C10_MalformedPropagates ==
    /\ [][((pc = "fetch_recv" /\ MalformedFromRemote)
             \/ (pc = "recv" /\ MalformedFromRemote /\ peer # Remote))
            => /\ fault' = "ValueError"
               /\ pc' = "leave"
               /\ peer' = peer
               /\ i' = i
               /\ stats' = stats
               /\ error_clock' = error_clock
               /\ ok_clock' = ok_clock
               /\ lastSent' = lastSent]_vars
    /\ [](fault = "ValueError" => pc \in {"leave", "done"})
    /\ []((fault = "ValueError" /\ pc = "done") => exits = 1)
    /\ [][fault = "ValueError"
            => (pc = "leave" /\ pc' = "done" /\ lastSent'.kind = "EXIT"
                  /\ i' = i /\ peer' = peer /\ stats' = stats)]_vars

C10_Witness ==
    /\ pc = "done"
    /\ fault = "ValueError"
    /\ caller = None
    /\ i > 0
    /\ exits = 1

\* C11: a recovery, from the rebind to the return of first_peer_fetch,
\* leaves ok_clock, the three counters of Stats and the round index as they
\* were, keeps peer until first_peer_fetch returns, and returns with peer an
\* address the introducer announced.
C11_RecoveryKeepsCounters ==
    /\ [][(caller = "recover" \/ caller' = "recover")
            => /\ ok_clock' = ok_clock
               /\ stats' = stats
               /\ i' = i
               /\ pings' = pings]_vars
    /\ [][(caller = "recover" /\ peer' # peer)
            => (pc = "fetch_recv" /\ pc' = "loop")]_vars
    /\ [][(pc = "fetch_recv" /\ caller = "recover" /\ pc' = "loop")
            => (peer' \in Announced /\ peer' # NoAddr)]_vars

C11_Witness ==
    /\ pc = "loop"
    /\ s.id = 1
    /\ outcome = "none"
    /\ ok_clock > 0
    /\ stats.got > 0
    /\ stats.other > 0
    /\ stats.miss = Threshold
    /\ i = Threshold + MaxDatagrams

\* C13: ok_clock is back to 0 after a round that is not a hit.
C13_OkStreakResets ==
    (pc = "loop" /\ outcome \in {"miss", "update", "other"}) => ok_clock = 0

\* C15: a session in which the binds succeed and every first_peer_fetch
\* returns ends only after 100 rounds and 100 pings.
C15_SessionRunsAllRounds ==
    (pc = "leave" /\ caller = None /\ fault # "OSError")
        => (i = Rounds /\ pings = Rounds)

\* C18: the three counters of Stats add up to the number of completed
\* rounds; they change only at the end of a round, by one, and a recovery
\* changes none of them.
C18_OneEventPerRound ==
    /\ [](stats.miss + stats.got + stats.other = i)
    /\ [](pc = "recv" => pings = i + 1)
    /\ [](pc = "loop" => pings = i)
    /\ [][(stats'.miss # stats.miss \/ stats'.got # stats.got
             \/ stats'.other # stats.other)
            => /\ pc = "recv"
               /\ pc' = "loop"
               /\ i' = i + 1
               /\ stats'.miss + stats'.got + stats'.other
                    = stats.miss + stats.got + stats.other + 1]_vars
    /\ [][(pc = "recv" /\ pc' = "loop")
            => stats'.miss + stats'.got + stats'.other
                 = stats.miss + stats.got + stats.other + 1]_vars

C18_Witness ==
    /\ pc = "loop"
    /\ i = Rounds
    /\ s.id > 0
    /\ stats.got > 0
    /\ stats.other > 0
    /\ outcome = "update"

\* C19: error_clock is between 0 and 10, and below 10 whenever a ping has
\* been sent and its round is not over.
C19_ErrorClockRange ==
    /\ error_clock \in 0..Threshold
    /\ pc = "recv" => error_clock < Threshold
    /\ lastSent.kind = "ping" /\ pc = "loop" /\ error_clock = Threshold
         => outcome = "miss"

C19_Witness ==
    /\ pc = "fetch_send"
    /\ caller = "recover"
    /\ error_clock = Threshold
    /\ s.id = 2

\* C20: while peer is remote, a datagram from remote is a hit: error_clock
\* is 0 after it, ok_clock and the got counter are one higher, nothing is
\* parsed (no fault, whatever the payload) and peer stays; peer changes from
\* remote only by the first_peer_fetch of a recovery.
C20_PeerTestFirst ==
    /\ [][(pc = "recv" /\ peer = Remote /\ inbox # NoDatagram
             /\ inbox.addr = Remote)
            => /\ pc' = "loop"
               /\ fault' = None
               /\ error_clock' = 0
               /\ ok_clock' = ok_clock + 1
               /\ stats'.got = stats.got + 1
               /\ stats'.other = stats.other
               /\ peer' = peer]_vars
    /\ [][(peer = Remote /\ peer' # peer)
            => (pc = "fetch_recv" /\ caller = "recover")]_vars

C20_Witness ==
    /\ pc = "loop"
    /\ peer = Remote
    /\ outcome = "hit"
    /\ stats.got = 1
    /\ stats.other = 1
    /\ error_clock = 0

\* C12: when the peer answers every ping and nothing else arrives, the
\* rounds never find error_clock at 10 (no rebind, one socket), every round
\* is a hit, and the session ends with miss 0, got 100, other 0 and one EXIT.
C12_AllHits ==
    /\ pc \in {"loop", "recv"}
         => /\ ~NeedsRecovery(error_clock)
            /\ error_clock = 0
            /\ stats.got = i
            /\ stats.miss = 0
            /\ stats.other = 0
            /\ s = main_s
    /\ fault # None => (caller # None \/ ~Bound)
    /\ (pc \in {"leave", "done"} /\ fault = None)
         => /\ stats.miss = 0
            /\ stats.got = Rounds
            /\ stats.other = 0
            /\ pings = Rounds
            /\ s.id = 0
    /\ exits = (IF pc = "done" /\ Bound THEN 1 ELSE 0)

C12_Witness ==
    /\ pc = "done"
    /\ fault = None
    /\ stats.got = Rounds
    /\ stats.miss = 0
    /\ exits = 1
    /\ lastSent.kind = "EXIT"

\* the smallest port from env.port upwards that no other process holds
SmallestFree(env) ==
    CHOOSE p \in env.port..(env.port + Cardinality(env.taken)) :
        /\ p \notin env.taken
        /\ \A q \in env.port..(p - 1) : q \in env.taken

\* C14: prepare_socket goes past the ports that are in use and binds the
\* smallest free port from the preferred one upwards; it fails only when
\* bind fails there for another reason.
C14_BindsSmallestFree ==
    pc = "bound"
        => IF SmallestFree(arg) \in arg.denied
           THEN ~res.ok
           ELSE res.ok /\ res.port = SmallestFree(arg)

\* the places of character c in a text
Places(text, c) == {k \in 1..Len(text) : text[k] = c}

\* C16: parse_server_msg returns (our, peer) exactly for the texts with one
\* ';' whose two sides parse_addr accepts, our from the left side and peer
\* from the right one; every other text (no ';', two or more, a side that
\* parse_addr rejects) fails.
C16_ServerMsgTwoFields ==
    pc = "msg"
        => LET semis == Places(arg, ";")
               k     == CHOOSE j \in semis : TRUE
               left  == parse_addr(SubSeq(arg, 1, k - 1))
               right == parse_addr(SubSeq(arg, k + 1, Len(arg)))
           IN  IF Cardinality(semis) = 1 /\ left.ok /\ right.ok
               THEN /\ res.ok
                    /\ res.our = left.addr
                    /\ res.peer = right.addr
               ELSE ~res.ok

C16_Witness ==
    /\ pc = "msg"
    /\ arg = <<"a", ":", "1", ";", ":", "1">>
    /\ res = [ok |-> TRUE, our |-> <<(<<"a">>), 1>>, peer |-> <<(<<>>), 1>>]

\* a port segment that is a non-negative integer: decimal digits, at least one
IsPort(text) == text # <<>> /\ \A k \in 1..Len(text) : text[k] \in Digit

\* C17: parse_addr fails exactly for the texts without ':' and those whose
\* part after the last ':' is no non-negative integer; for every other text
\* it returns the part before the last ':' as host and the integer as port.
C17_SplitsAtLastColon ==
    pc = "addr"
        => LET colons == Places(arg, ":")
               k      == CHOOSE j \in colons : \A m \in colons : m <= j
               host   == SubSeq(arg, 1, k - 1)
               port   == SubSeq(arg, k + 1, Len(arg))
           IN  IF colons # {} /\ IsPort(port)
               THEN res.ok /\ res.addr = <<host, DigitsValue(port, 0)>>
               ELSE ~res.ok

====
